---- MODULE Spec2Model ----
(***************************************************************************)
(* Model of backend/app/api/v1/routers/upload.py: the upload handler       *)
(* upload_file and the encoding resolver read_file_content.                *)
(*                                                                         *)
(* A byte buffer is a sequence of byte values (0..255), a decoded text a   *)
(* sequence of Unicode code points, a file name a sequence of one-         *)
(* character strings, an encoding name a string.  Python's None is NoName  *)
(* for a name and the empty option <<>> for a text (<<t>> is the text t).  *)
(* file.read() is taken to deliver the uploaded buffer.                    *)
(***************************************************************************)
EXTENDS Integers, Sequences, FiniteSets, TLC

VARIABLES pc, filename, content_bytes, detected_encoding, fallback_encodings,
          enc_index, attempted, decoded_content, used_encoding, exc, path,
          data, response, first

vars == <<pc, filename, content_bytes, detected_encoding, fallback_encodings,
          enc_index, attempted, decoded_content, used_encoding, exc, path,
          data, response, first>>

(* ------------------------------ bounds --------------------------------- *)

\* longest uploaded buffer, in bytes
MaxLen == 4

\* longest uploaded buffer in the specification that compares two uploads
MaxLenTwice == 1

(* ------------------------------ inputs --------------------------------- *)

\* 'a', line feed, double quote, a UTF-8 lead byte (0xC3) and a byte (0x81)
\* that continues a UTF-8 sequence and has no character in windows-1252
ByteValues == {97, 10, 34, 195, 129}

Buffers(n) == UNION {[1..k -> ByteValues] : k \in 0..n}

NoName == "<None>"

\* what chardet.detect(...)['encoding'] may hold: nothing, a name spelled as
\* in the fallback list, chardet's own spellings, and a name (EUC-TW) that
\* chardet reports but Python has no codec for
DetectorOutcomes ==
    {NoName, "utf-8", "ascii", "iso-8859-1", "ISO-8859-1", "windows-1252",
     "Windows-1252", "EUC-TW"}

FileNames ==
    { <<"f", ".", "c", "s", "v">>, <<"F", ".", "C", "S", "V">>,
      <<"f", ".", "t", "x", "t">>, <<"c", "s", "v">> }

(* --------------------- bytes.decode(enc), line 34 ---------------------- *)

\* codec registry lookup: case-insensitive aliases, "unknown" -> LookupError
CodecOf(name) ==
    CASE name \in {"utf-8"} -> "utf_8"
      [] name \in {"ascii"} -> "ascii"
      [] name \in {"iso-8859-1", "ISO-8859-1"} -> "latin_1"
      [] name \in {"windows-1252", "Windows-1252"} -> "cp1252"
      [] OTHER -> "unknown"

DecodeError == [ok |-> FALSE, text |-> <<>>]

Decoded(t) == [ok |-> TRUE, text |-> t]

IsContinuation(b) == b >= 128 /\ b <= 191

RECURSIVE Utf8From(_, _, _)
Utf8From(b, i, acc) ==
    IF i > Len(b) THEN Decoded(acc)
    ELSE LET c == b[i]
             n == Len(b) - i + 1
         IN  IF c < 128 THEN Utf8From(b, i + 1, Append(acc, c))
             ELSE IF c >= 194 /\ c <= 223 THEN
                 IF n >= 2 /\ IsContinuation(b[i + 1])
                 THEN Utf8From(b, i + 2,
                               Append(acc, (c - 192) * 64 + (b[i + 1] - 128)))
                 ELSE DecodeError
             ELSE IF c >= 224 /\ c <= 239 THEN
                 IF /\ n >= 3
                    /\ IsContinuation(b[i + 1])
                    /\ IsContinuation(b[i + 2])
                    /\ (c = 224 => b[i + 1] >= 160)
                    /\ (c = 237 => b[i + 1] <= 159)
                 THEN Utf8From(b, i + 3,
                               Append(acc, (c - 224) * 4096
                                           + (b[i + 1] - 128) * 64
                                           + (b[i + 2] - 128)))
                 ELSE DecodeError
             ELSE IF c >= 240 /\ c <= 244 THEN
                 IF /\ n >= 4
                    /\ IsContinuation(b[i + 1])
                    /\ IsContinuation(b[i + 2])
                    /\ IsContinuation(b[i + 3])
                    /\ (c = 240 => b[i + 1] >= 144)
                    /\ (c = 244 => b[i + 1] <= 143)
                 THEN Utf8From(b, i + 4,
                               Append(acc, (c - 240) * 262144
                                           + (b[i + 1] - 128) * 4096
                                           + (b[i + 2] - 128) * 64
                                           + (b[i + 3] - 128)))
                 ELSE DecodeError
             ELSE DecodeError

Utf8Decode(b) == Utf8From(b, 1, <<>>)

AsciiDecode(b) ==
    IF \A i \in 1..Len(b) : b[i] < 128
    THEN Decoded([i \in 1..Len(b) |-> b[i]])
    ELSE DecodeError

\* byte value b is the character U+00b
Latin1Decode(b) == Decoded([i \in 1..Len(b) |-> b[i]])

\* bytes 0x80..0x9F of windows-1252; -1 marks the five bytes without a character
Cp1252High ==
    <<8364, -1, 8218, 402, 8222, 8230, 8224, 8225,
      710, 8240, 352, 8249, 338, -1, 381, -1,
      -1, 8216, 8217, 8220, 8221, 8226, 8211, 8212,
      732, 8482, 353, 8250, 339, -1, 382, 376>>

Cp1252Char(c) == IF c >= 128 /\ c <= 159 THEN Cp1252High[c - 127] ELSE c

Cp1252Decode(b) ==
    IF \A i \in 1..Len(b) : Cp1252Char(b[i]) # -1
    THEN Decoded([i \in 1..Len(b) |-> Cp1252Char(b[i])])
    ELSE DecodeError

\* outcome of content_bytes.decode(enc): "ok" with the text, "UnicodeDecodeError"
\* or "LookupError" (no codec of that name)
decode(b, enc) ==
    LET codec == CodecOf(enc)
        r == CASE codec = "utf_8" -> Utf8Decode(b)
               [] codec = "ascii" -> AsciiDecode(b)
               [] codec = "latin_1" -> Latin1Decode(b)
               [] codec = "cp1252" -> Cp1252Decode(b)
               [] OTHER -> DecodeError
    IN  IF codec = "unknown" THEN [raised |-> "LookupError", text |-> <<>>]
        ELSE IF r.ok THEN [raised |-> "ok", text |-> r.text]
        ELSE [raised |-> "UnicodeDecodeError", text |-> <<>>]

(* ------------------- candidate list, lines 21 to 27 -------------------- *)

\* line 21: the detector's name, or 'utf-8' when it gives none
DefaultEncoding(g) == IF g # NoName THEN g ELSE "utf-8"

\* the list as a module-level object that every call shares and line 27 grows
FallbackEncodings_shared ==
    IF fallback_encodings = <<>> THEN <<"utf-8", "iso-8859-1", "windows-1252">>
    ELSE fallback_encodings

\* the list with its first two names swapped
FallbackEncodings_latin_first == <<"iso-8859-1", "utf-8", "windows-1252">>

\* line 24
FallbackEncodings == <<"utf-8", "iso-8859-1", "windows-1252">>

Range(s) == {s[i] : i \in 1..Len(s)}

\* append(encoding) in place of insert(0, encoding)
Candidates_append(encoding, fallbacks) ==
    IF encoding \notin Range(fallbacks) THEN fallbacks \o <<encoding>>
    ELSE fallbacks

\* insert(0, encoding) without the membership test of line 26
Candidates_always_insert(encoding, fallbacks) == <<encoding>> \o fallbacks

\* lines 26-27: insert(0, encoding) unless the name is already listed
Candidates(encoding, fallbacks) ==
    IF encoding \notin Range(fallbacks) THEN <<encoding>> \o fallbacks
    ELSE fallbacks

(* ------------------- str.splitlines(), line 59 ------------------------- *)

\* \n \r \v \f FS GS RS NEL LS PS
LineBoundaries == {10, 13, 11, 12, 28, 29, 30, 133, 8232, 8233}

RECURSIVE SplitFrom(_, _, _, _)
SplitFrom(t, i, cur, acc) ==
    IF i > Len(t) THEN (IF cur = <<>> THEN acc ELSE Append(acc, cur))
    ELSE IF t[i] = 13 /\ i < Len(t) /\ t[i + 1] = 10
         THEN SplitFrom(t, i + 2, <<>>, Append(acc, cur))
    ELSE IF t[i] \in LineBoundaries
         THEN SplitFrom(t, i + 1, <<>>, Append(acc, cur))
    ELSE SplitFrom(t, i + 1, Append(cur, t[i]), acc)

splitlines(t) == SplitFrom(t, 1, <<>>, <<>>)

(* ------- pd.read_csv(...).to_dict(orient='records'), lines 55-56 ------- *)

\* The texts of the model carry no delimiter, so every row has one field.
\* Tokenizer of the default C engine: blank lines are skipped, a field that
\* opens with a quote runs to the closing quote ("" is a literal quote) and
\* end of input inside it is an error.
RECURSIVE Tokenize(_, _, _, _, _)
Tokenize(t, i, st, cur, rows) ==
    IF i > Len(t) THEN
        CASE st = "START_RECORD" -> [ok |-> TRUE, rows |-> rows]
          [] st = "IN_QUOTED_FIELD" -> [ok |-> FALSE, rows |-> <<>>]
          [] OTHER -> [ok |-> TRUE, rows |-> Append(rows, cur)]
    ELSE LET c == t[i] IN
        CASE st = "START_RECORD" ->
                 IF c = 10 THEN Tokenize(t, i + 1, "START_RECORD", <<>>, rows)
                 ELSE IF c = 34
                      THEN Tokenize(t, i + 1, "IN_QUOTED_FIELD", <<>>, rows)
                 ELSE Tokenize(t, i + 1, "IN_FIELD", <<c>>, rows)
          [] st = "IN_FIELD" ->
                 IF c = 10
                 THEN Tokenize(t, i + 1, "START_RECORD", <<>>, Append(rows, cur))
                 ELSE Tokenize(t, i + 1, "IN_FIELD", Append(cur, c), rows)
          [] st = "IN_QUOTED_FIELD" ->
                 IF c = 34
                 THEN Tokenize(t, i + 1, "QUOTE_IN_QUOTED_FIELD", cur, rows)
                 ELSE Tokenize(t, i + 1, "IN_QUOTED_FIELD", Append(cur, c), rows)
          [] OTHER ->
                 IF c = 34
                 THEN Tokenize(t, i + 1, "IN_QUOTED_FIELD", Append(cur, c), rows)
                 ELSE IF c = 10
                 THEN Tokenize(t, i + 1, "START_RECORD", <<>>, Append(rows, cur))
                 ELSE Tokenize(t, i + 1, "IN_FIELD", Append(cur, c), rows)

\* "Unnamed: 0", the name pandas gives a column whose header cell is empty
Unnamed == <<85, 110, 110, 97, 109, 101, 100, 58, 32, 48>>

\* one record per row after the header row; an empty cell is NaN (value <<>>)
Records(rows) ==
    LET column == IF rows[1] = <<>> THEN Unnamed ELSE rows[1]
    IN  [k \in 1..(Len(rows) - 1) |->
            [column |-> column,
             value |-> IF rows[k + 1] = <<>> THEN <<>> ELSE <<rows[k + 1]>>]]

read_csv(t) ==
    LET tok == Tokenize(t, 1, "START_RECORD", <<>>, <<>>)
    IN  IF ~tok.ok THEN [raised |-> "ParserError", data |-> <<>>]
        ELSE IF tok.rows = <<>> THEN [raised |-> "EmptyDataError", data |-> <<>>]
        ELSE [raised |-> "ok", data |-> Records(tok.rows)]

Lower(ch) ==
    CASE ch = "F" -> "f" [] ch = "C" -> "c" [] ch = "S" -> "s"
      [] ch = "V" -> "v" [] OTHER -> ch

\* filename.lower().endswith(suffix)
endswith_nocase(s, suffix) ==
    /\ Len(s) >= Len(suffix)
    /\ \A k \in 1..Len(suffix) :
          Lower(s[Len(s) - Len(suffix) + k]) = suffix[k]

\* str.endswith, line 54
endswith(s, suffix) ==
    /\ Len(s) >= Len(suffix)
    /\ SubSeq(s, Len(s) - Len(suffix) + 1, Len(s)) = suffix

DotCsv == <<".", "c", "s", "v">>

\* JSONResponse(content=...) renders with allow_nan=False: a NaN cell raises
Renders(kind, d) ==
    kind = "lines" \/ \A k \in 1..Len(d) : d[k].value # <<>>

(* ----------------------------- the handler ----------------------------- *)

NoException == [type |-> "none", status_code |-> 0, detail |-> ""]

NoResponse == [status_code |-> 0, content |-> <<>>]

DecodeExhausted ==
    [type |-> "HTTPException", status_code |-> 400,
     detail |-> "Could not decode the file with any of the supported encodings."]

Raised(type) == [type |-> type, status_code |-> 0, detail |-> type]

Init ==
    /\ pc = "idle"
    /\ filename = <<>>
    /\ content_bytes = <<>>
    /\ detected_encoding = NoName
    /\ fallback_encodings = <<>>
    /\ enc_index = 0
    /\ attempted = <<>>
    /\ decoded_content = <<>>
    /\ used_encoding = NoName
    /\ exc = NoException
    /\ path = "none"
    /\ data = <<>>
    /\ response = NoResponse
    /\ first = <<>>

\* lines 14 to 30 for the upload of buffer b under name f, the detector
\* naming g
Accept(b, f, g) ==
    /\ filename' = f
    /\ content_bytes' = b
    /\ detected_encoding' = g
    /\ fallback_encodings' = Candidates(DefaultEncoding(g), FallbackEncodings)
    /\ enc_index' = 1
    /\ attempted' = <<>>
    /\ decoded_content' = <<>>
    /\ used_encoding' = NoName
    /\ exc' = NoException
    /\ path' = "none"
    /\ data' = <<>>
    /\ response' = NoResponse
    /\ pc' = "decode"

Receive ==
    /\ pc = "idle"
    /\ \E b \in Buffers(MaxLen), f \in FileNames, g \in DetectorOutcomes :
          Accept(b, f, g)
    /\ UNCHANGED first

\* lines 32 to 38, one iteration of the loop over fallback_encodings
TryDecode ==
    /\ pc = "decode"
    /\ enc_index <= Len(fallback_encodings)
    /\ LET enc == fallback_encodings[enc_index]
           r == decode(content_bytes, enc)
       IN  /\ attempted' = Append(attempted, enc)
           /\ IF r.raised = "ok"
              THEN /\ decoded_content' = <<r.text>>
                   /\ used_encoding' = enc
                   /\ pc' = "check"
                   /\ UNCHANGED <<enc_index, exc>>
              ELSE IF r.raised = "UnicodeDecodeError"
              THEN /\ enc_index' = enc_index + 1
                   /\ pc' = IF enc_index + 1 > Len(fallback_encodings)
                            THEN "check" ELSE "decode"
                   /\ UNCHANGED <<decoded_content, used_encoding, exc>>
              ELSE /\ exc' = Raised(r.raised)
                   /\ pc' = "except"
                   /\ UNCHANGED <<enc_index, decoded_content, used_encoding>>
    /\ UNCHANGED <<filename, content_bytes, detected_encoding,
                   fallback_encodings, path, data, response, first>>

\* lines 40 to 43
CheckDecoded ==
    /\ pc = "check"
    /\ IF decoded_content = <<>>
       THEN exc' = DecodeExhausted /\ pc' = "except"
       ELSE exc' = exc /\ pc' = "materialize"
    /\ UNCHANGED <<filename, content_bytes, detected_encoding,
                   fallback_encodings, enc_index, attempted, decoded_content,
                   used_encoding, path, data, response, first>>

\* lines 54 to 59
Materialize ==
    /\ pc = "materialize"
    /\ IF endswith(filename, DotCsv)
       THEN LET r == read_csv(decoded_content[1])
            IN  /\ path' = "csv"
                /\ data' = r.data
                /\ IF r.raised = "ok"
                   THEN exc' = exc /\ pc' = "respond"
                   ELSE exc' = Raised(r.raised) /\ pc' = "except"
       ELSE /\ path' = "lines"
            /\ data' = splitlines(decoded_content[1])
            /\ exc' = exc
            /\ pc' = "respond"
    /\ UNCHANGED <<filename, content_bytes, detected_encoding,
                   fallback_encodings, enc_index, attempted, decoded_content,
                   used_encoding, response, first>>

\* lines 61 to 65
Respond ==
    /\ pc = "respond"
    /\ IF Renders(path, data)
       THEN /\ response' = [status_code |-> 200,
                            content |-> [filename |-> filename,
                                         detected_encoding |-> used_encoding,
                                         data |-> data]]
            /\ exc' = exc
            /\ pc' = "done"
       ELSE /\ exc' = Raised("ValueError")
            /\ response' = response
            /\ pc' = "except"
    /\ UNCHANGED <<filename, content_bytes, detected_encoding,
                   fallback_encodings, enc_index, attempted, decoded_content,
                   used_encoding, path, data, first>>

\* lines 66 to 69
HandleException ==
    /\ pc = "except"
    /\ response' =
          IF exc.type = "HTTPException"
          THEN [status_code |-> exc.status_code,
                content |-> [error |-> <<exc.detail>>]]
          ELSE [status_code |-> 500,
                content |-> [error |-> <<"An unexpected error occurred: ",
                                         exc.detail>>]]
    /\ pc' = "done"
    /\ UNCHANGED <<filename, content_bytes, detected_encoding,
                   fallback_encodings, enc_index, attempted, decoded_content,
                   used_encoding, exc, path, data, first>>

\* the handler has returned its response: the request and every local of the
\* call are gone; the list object the call built is left as the call left it
\* and no later call looks at it (line 24 builds a new one)
Discard ==
    /\ filename' = <<>>
    /\ content_bytes' = <<>>
    /\ detected_encoding' = NoName
    /\ enc_index' = 0
    /\ attempted' = <<>>
    /\ decoded_content' = <<>>
    /\ used_encoding' = NoName
    /\ exc' = NoException
    /\ path' = "none"
    /\ data' = <<>>
    /\ response' = NoResponse
    /\ UNCHANGED fallback_encodings

Finish ==
    /\ pc = "done"
    /\ pc' = "idle"
    /\ Discard
    /\ UNCHANGED first

Next ==
    \/ Receive
    \/ TryDecode
    \/ CheckDecoded
    \/ Materialize
    \/ Respond
    \/ HandleException
    \/ Finish

Spec == Init /\ [][Next]_vars

(* ------------- two uploads compared: the second specification ---------- *)

\* what read_file_content gave the call: the pair it returned, or the
\* exception that left it
ResolverOutcome ==
    [text |-> decoded_content, encoding |-> used_encoding,
     raised |-> IF decoded_content = <<>> THEN exc.type ELSE "none"]

ReceiveTwice ==
    /\ pc = "idle"
    /\ \E b \in Buffers(MaxLenTwice), f \in FileNames, g \in DetectorOutcomes :
          Accept(b, f, g)
    /\ UNCHANGED first

\* as Finish; the finished upload may be kept in first for comparison with
\* a later one
FinishTwice ==
    /\ pc = "done"
    /\ pc' = "idle"
    /\ Discard
    /\ \E remember \in BOOLEAN :
          first' = IF remember /\ first = <<>>
                   THEN <<[content_bytes |-> content_bytes,
                           detected_encoding |-> detected_encoding,
                           outcome |-> ResolverOutcome]>>
                   ELSE first

NextTwice ==
    \/ ReceiveTwice
    \/ TryDecode
    \/ CheckDecoded
    \/ Materialize
    \/ Respond
    \/ HandleException
    \/ FinishTwice

SpecTwice == Init /\ [][NextTwice]_vars

(* ------------------------------- claims -------------------------------- *)

Fixed == {"utf-8", "iso-8859-1", "windows-1252"}

Decodes(k) == decode(content_bytes, fallback_encodings[k]).raised = "ok"

\* C1: when the resolver is through, the pair it returned comes from the
\* earliest candidate of the list that decodes the buffer, and every
\* candidate before that one was attempted and skipped, whatever made it
\* fail (an unknown encoding name included).
FirstDecodableCandidateWins ==
    pc = "done" =>
        /\ \E k \in 1..Len(fallback_encodings) : Decodes(k)
        /\ \A k \in 1..Len(fallback_encodings) :
              (Decodes(k) /\ \A j \in 1..(k - 1) : ~Decodes(j)) =>
                  /\ attempted = SubSeq(fallback_encodings, 1, k)
                  /\ used_encoding = fallback_encodings[k]
                  /\ decoded_content =
                        <<decode(content_bytes, fallback_encodings[k]).text>>

\* C2: a candidate list that holds the three fixed fallbacks never ends in
\* decode exhaustion: a (text, encoding) pair is returned, for every buffer
\* and every detector outcome.
FallbacksAlwaysYieldAPair ==
    (pc = "done" /\ Fixed \subseteq Range(fallback_encodings)) =>
        /\ decoded_content # <<>>
        /\ used_encoding \in Range(fallback_encodings)
        /\ response.status_code # 400

\* C3 as stated: a named encoding from the detector is the first candidate
\* attempted, whichever encoding it is.
DetectedEncodingTriedFirst ==
    (detected_encoding # NoName /\ attempted # <<>>) =>
        attempted[1] = detected_encoding

\* C3 as amended: a named encoding from the detector is the first candidate
\* attempted unless it is one of the three fixed fallbacks; if it is one of
\* them the fixed list is used as it is and utf-8 is attempted first.
DetectedEncodingTriedFirstUnlessListed ==
    (detected_encoding # NoName /\ attempted # <<>>) =>
        attempted[1] = IF detected_encoding \in Fixed THEN "utf-8"
                       ELSE detected_encoding

DetectedEncodingTriedFirstWitness ==
    /\ pc = "done"
    /\ detected_encoding = "Windows-1252"
    /\ attempted = <<"Windows-1252", "utf-8", "iso-8859-1">>

\* C4 as stated: whenever the resolver returns for a buffer that is valid
\* utf-8, the encoding name it returns is "utf-8", for every detector outcome.
ValidUtf8ReturnsUtf8 ==
    (pc = "done" /\ Utf8Decode(content_bytes).ok /\ decoded_content # <<>>) =>
        used_encoding = "utf-8"

\* C4 as amended: a buffer that is valid utf-8 is returned as its utf-8 text
\* with the encoding name "utf-8" when the detector gives no guess or names
\* one of the three fixed fallbacks.
ValidUtf8ReturnsUtf8UnlessPrepended ==
    (/\ pc = "done"
     /\ Utf8Decode(content_bytes).ok
     /\ detected_encoding \in Fixed \cup {NoName}) =>
        /\ used_encoding = "utf-8"
        /\ decoded_content = <<Utf8Decode(content_bytes).text>>

ValidUtf8ReturnsUtf8Witness ==
    /\ pc = "done"
    /\ content_bytes = <<195, 129>>
    /\ detected_encoding = "iso-8859-1"
    /\ used_encoding = "utf-8"
    /\ decoded_content = <<(<<193>>)>>

\* C5: an upload of the same buffer with the same detector guess as an
\* earlier upload gets the same outcome from the resolver (the same text and
\* encoding), whatever uploads ran in between.
SameBufferSameOutcome ==
    (/\ pc = "done"
     /\ first # <<>>
     /\ first[1].content_bytes = content_bytes
     /\ first[1].detected_encoding = detected_encoding) =>
        first[1].outcome = ResolverOutcome

SameBufferSameOutcomeWitness ==
    /\ pc = "done"
    /\ first # <<>>
    /\ first[1].content_bytes = content_bytes
    /\ first[1].detected_encoding = detected_encoding
    /\ content_bytes = <<129>>
    /\ detected_encoding = "ascii"
    /\ used_encoding = "iso-8859-1"

\* C6: the handler takes the tabular path (a record sequence) exactly when
\* the file name ends with the lower-case suffix ".csv", and the line path
\* (a line sequence) for every other name.
CsvPathIffLowerCaseSuffix ==
    path # "none" =>
        LET n == Len(filename)
            lowerCsv == /\ n >= 4
                        /\ filename[n - 3] = "."
                        /\ filename[n - 2] = "c"
                        /\ filename[n - 1] = "s"
                        /\ filename[n] = "v"
        IN  /\ path = "csv" <=> lowerCsv
            /\ path = "lines" <=> ~lowerCsv

UpperCaseCsvYieldsLines ==
    /\ pc = "done"
    /\ filename = <<"F", ".", "C", "S", "V">>
    /\ response.status_code = 200
    /\ path = "lines"
    /\ response.content.data = <<(<<97>>), (<<97>>)>>

CountOf(t, c) == Cardinality({i \in 1..Len(t) : t[i] = c})

\* lines of a text whose only line terminator is the line feed
LineCount(t) ==
    CountOf(t, 10) + (IF t # <<>> /\ t[Len(t)] # 10 THEN 1 ELSE 0)

\* C7: the data of a successful upload has one element per line of the text
\* and, for a .csv name (text without quotes that opens with its header
\* line), one element per line after the header line: no line or row, an
\* empty one included, is dropped.
NoRowOrLineDropped ==
    (pc = "done" /\ response.status_code = 200) =>
        LET text == decoded_content[1]
        IN  IF path = "lines"
            THEN Len(response.content.data) = LineCount(text)
            ELSE (CountOf(text, 34) = 0 /\ text[1] # 10) =>
                    Len(response.content.data) = LineCount(text) - 1

\* C8: the upload of an empty buffer succeeds with empty text, an encoding
\* of the fixed fallback list (utf-8 when the detector gives no guess) and
\* empty data, for a .csv name and for any other name.
EmptyBufferSucceedsEmpty ==
    (/\ pc = "done"
     /\ content_bytes = <<>>
     /\ detected_encoding \in Fixed \cup {NoName}) =>
        /\ response.status_code = 200
        /\ decoded_content = <<(<<>>)>>
        /\ used_encoding \in Fixed
        /\ (detected_encoding = NoName => used_encoding = "utf-8")
        /\ response.content.data = <<>>

\* C9: every upload ends in one of three responses: success (200) with the
\* file name, the encoding that decoded the buffer and the data; an
\* error-only 400 when decoding is exhausted or the input is malformed; an
\* error-only 500 for any other fault.  No response has data and an error.
ThreeOutcomesClientFaultsAs400 ==
    pc = "done" =>
        LET clientFault == exc.type \in {"HTTPException", "ParserError"}
        IN  /\ response.status_code \in {200, 400, 500}
            /\ response.status_code = 200 =>
                  /\ DOMAIN response.content =
                        {"filename", "detected_encoding", "data"}
                  /\ response.content.filename = filename
                  /\ response.content.detected_encoding = used_encoding
                  /\ decode(content_bytes, used_encoding).raised = "ok"
                  /\ exc.type = "none"
            /\ response.status_code # 200 =>
                  DOMAIN response.content = {"error"}
            /\ response.status_code = 400 <=> clientFault
            /\ response.status_code = 500 <=>
                  (exc.type # "none" /\ ~clientFault)

\* C10: in every call the candidate list has no duplicate entry and is the
\* fixed list, with the detector's encoding put in front exactly when the
\* detector named an encoding that the fixed list does not hold.
CandidateListIsFixedListPlusGuess ==
    pc # "idle" =>
        /\ \A i, j \in 1..Len(fallback_encodings) :
              fallback_encodings[i] = fallback_encodings[j] => i = j
        /\ fallback_encodings =
              IF detected_encoding # NoName /\ detected_encoding \notin Fixed
              THEN <<detected_encoding, "utf-8", "iso-8859-1", "windows-1252">>
              ELSE <<"utf-8", "iso-8859-1", "windows-1252">>

CandidateListWitness ==
    /\ pc = "decode"
    /\ detected_encoding = "ascii"
    /\ fallback_encodings = <<"ascii", "utf-8", "iso-8859-1", "windows-1252">>
    /\ attempted = <<"ascii">>

====
